---- MODULE Spec2Model ----
(***************************************************************************)
(* Model of aipyapp/aipy/prompt.py: the five prompt builders                *)
(* get_system_prompt, get_task_prompt, get_results_prompt, get_chat_prompt *)
(* and get_mcp_result_prompt.                                              *)
(*                                                                         *)
(* A Python str is a sequence of tokens.  A token is a brace "{" or "}",   *)
(* a white-space character ("SP", "NL"), or a run of other characters.     *)
(* An OrderedDict is a sequence of [key, val] entries in insertion order.  *)
(* A builder invocation runs in steps (one per block of source lines), so  *)
(* that invocations of several threads interleave.                         *)
(***************************************************************************)
EXTENDS Integers, Sequences, FiniteSets, TLC

(* ------------------------------ bounds --------------------------------- *)
MaxLen == 2
MaxTips == 2
MaxResults == 2
NumThreads == 2

(* ------------------------------ strings -------------------------------- *)
NL == "NL"
SP == "SP"
Whitespace == {SP, NL}

\* Python's None, for the optional user_prompt
NoneVal == <<"<None>">>

\* Python truthiness of an optional str: None and "" are falsy
Truthy(s) == s # NoneVal /\ s # <<>>

RECURSIVE LStrip(_)
LStrip(s) == IF s # <<>> /\ Head(s) \in Whitespace THEN LStrip(Tail(s)) ELSE s

RECURSIVE RStrip(_)
RStrip(s) ==
    IF s # <<>> /\ s[Len(s)] \in Whitespace
    THEN RStrip(SubSeq(s, 1, Len(s) - 1))
    ELSE s

\* str.strip()
Strip(s) == RStrip(LStrip(s))

(* ----------------------------- str.format ------------------------------ *)
KeyError == <<"<KeyError>">>
ValueError == <<"<ValueError>">>
IsError(s) == s \in {KeyError, ValueError}

\* concatenation that propagates a raised exception
Cat(a, b) == IF IsError(b) THEN b ELSE a \o b

\* index of the first "}" at or after i, 0 when there is none
RECURSIVE ClosingBrace(_, _)
ClosingBrace(tpl, i) ==
    IF i > Len(tpl) THEN 0
    ELSE IF tpl[i] = "}" THEN i
    ELSE ClosingBrace(tpl, i + 1)

\* One left-to-right pass over the template: "{{" and "}}" are escaped
\* braces, "{name}" is replaced by kw[name], the text put in is not scanned again.
RECURSIVE FormatFrom(_, _, _)
FormatFrom(tpl, kw, i) ==
    IF i > Len(tpl) THEN <<>>
    ELSE IF tpl[i] = "{" THEN
        IF i < Len(tpl) /\ tpl[i + 1] = "{"
        THEN Cat(<<"{">>, FormatFrom(tpl, kw, i + 2))
        ELSE LET j == ClosingBrace(tpl, i + 1) IN
             IF j = 0 THEN ValueError
             ELSE IF j = i + 2 /\ tpl[i + 1] \in DOMAIN kw
                  THEN Cat(kw[tpl[i + 1]], FormatFrom(tpl, kw, j + 1))
                  ELSE KeyError
    ELSE IF tpl[i] = "}" THEN
        IF i < Len(tpl) /\ tpl[i + 1] = "}"
        THEN Cat(<<"}">>, FormatFrom(tpl, kw, i + 2))
        ELSE ValueError
    ELSE Cat(<<tpl[i]>>, FormatFrom(tpl, kw, i + 1))

\* mutant of Format: the formatted text is formatted a second time
FormatTwice(tpl, kw) ==
    LET once == FormatFrom(tpl, kw, 1) IN
    IF IsError(once) THEN once ELSE FormatFrom(once, kw, 1)

\* template.format(**kw)
Format(tpl, kw) == FormatFrom(tpl, kw, 1)

(* ----------------------------- templates ------------------------------- *)
SYSTEM_PROMPT_TEMPLATE ==
    <<NL, "{", "role_prompt", "}", NL, "{", "aipy_prompt", "}", NL,
      "{", "tips_prompt", "}", NL, "{", "api_prompt", "}", NL>>

\* the rules text; it holds JSON examples in braces and is only ever a value
AIPY_PROMPT ==
    <<NL, "# output format rules", NL, "<!-- Block-Start: ", "{", "\"name\": \"abc123\"", "}",
      " -->", NL, "# code execution feedback", NL>>

TIPS_PROMPT == <<NL, "# tips / best practices", NL, "{", "tips", "}", NL>>

API_PROMPT ==
    <<NL, "# some API information", NL, "use runtime.get_env, never os.getenv", NL,
      NL, "{", "apis", "}", NL>>

(* ---------------------------- OrderedDict ------------------------------ *)
OrderedDict == <<>>

Keys(d) == [i \in 1..Len(d) |-> d[i].key]

HasKey(d, k) == \E i \in 1..Len(d) : d[i].key = k

Get(d, k) == d[CHOOSE i \in 1..Len(d) : d[i].key = k].val

\* d[k] = v: an existing key keeps its place, a new key goes last
OSet(d, k, v) ==
    IF HasKey(d, k)
    THEN [i \in 1..Len(d) |-> IF d[i].key = k THEN [key |-> k, val |-> v] ELSE d[i]]
    ELSE Append(d, [key |-> k, val |-> v])

(* --------------------------- the environment --------------------------- *)
EnvKeys == {"TERM", "LC_TERMINAL", "COLORTERM"}

\* the values a variable takes when it is set; the empty string is a value
EnvVals(k) == IF k = "COLORTERM" THEN {<<"truecolor">>} ELSE {<<>>, <<"xterm">>}

\* os.environ: a mapping from the variables that are set to their values
Environs ==
    UNION {{e \in [S -> {<<>>, <<"xterm">>, <<"truecolor">>}] : \A k \in S : e[k] \in EnvVals(k)} :
           S \in SUBSET EnvKeys}

\* mutant of environ_get: an empty value counts as absent (get(k) or default)
environ_get_or(e, k, default) ==
    [value |-> IF k \in DOMAIN e /\ e[k] # <<>> THEN e[k] ELSE default,
     environ |-> e]

\* mutant of environ_get: os.environ.setdefault(k, default)
environ_setdefault(e, k, default) ==
    [value |-> IF k \in DOMAIN e THEN e[k] ELSE default,
     environ |-> IF k \in DOMAIN e THEN e
                 ELSE [x \in DOMAIN e \cup {k} |-> IF x = k THEN default ELSE e[x]]]

\* os.environ.get(k, default): the value read and the mapping afterwards
environ_get(e, k, default) ==
    [value |-> IF k \in DOMAIN e THEN e[k] ELSE default,
     environ |-> e]

Dates == {[year |-> 2026, month |-> 11, day |-> 4], [year |-> 2027, month |-> 1, day |-> 15]}

RECURSIVE Pad(_, _)
Pad(n, width) ==
    IF width = 0 THEN <<>> ELSE Append(Pad(n \div 10, width - 1), ToString(n % 10))

\* date.isoformat(): YYYY-MM-DD
isoformat(d) == Pad(d.year, 4) \o <<"-">> \o Pad(d.month, 2) \o <<"-">> \o Pad(d.day, 2)

\* locale.getlocale(): (language code, encoding)
Locales == {<<"None", "None">>, <<"en_US", "UTF-8">>}

\* platform.system(), platform.platform(), platform.python_version()
Hosts ==
    {[system |-> <<"Linux">>, platform |-> <<"Linux-6.8-x86_64">>, python_version |-> <<"3.12.3">>]}

(* ------------------------- get_system_prompt --------------------------- *)
\* lines 221-222: a truthy user_prompt is stripped
SystemStrip(user_prompt) == IF Truthy(user_prompt) THEN Strip(user_prompt) ELSE user_prompt

\* mutant of SystemRole: the user prompt is used even when it is empty
SystemRoleNoFallback(tips, user_prompt) == IF user_prompt = NoneVal THEN <<>> ELSE user_prompt

\* line 224: user_prompt or tips.role.detail
SystemRole(tips, user_prompt) == IF Truthy(user_prompt) THEN user_prompt ELSE tips.role.detail

\* lines 223-228: the prompts dict
SystemPrompts(tips, api_prompt, user_prompt) ==
    [role_prompt |-> SystemRole(tips, user_prompt),
     aipy_prompt |-> AIPY_PROMPT,
     tips_prompt |-> <<>>,
     api_prompt  |-> Format(API_PROMPT, [apis |-> api_prompt])]

\* mutant of SystemTips: the tips are rendered whenever there are any
SystemTipsAlways(prompts, tips, user_prompt) ==
    IF tips.len > 0
    THEN [prompts EXCEPT !.tips_prompt = Format(TIPS_PROMPT, [tips |-> tips.str])]
    ELSE prompts

\* lines 229-230: the tips section, when there is no user prompt and there are tips
SystemTips(prompts, tips, user_prompt) ==
    IF ~Truthy(user_prompt) /\ tips.len > 0
    THEN [prompts EXCEPT !.tips_prompt = Format(TIPS_PROMPT, [tips |-> tips.str])]
    ELSE prompts

\* line 231
SystemFormat(prompts) == Format(SYSTEM_PROMPT_TEMPLATE, prompts)

get_system_prompt(tips, api_prompt, user_prompt) ==
    LET up == SystemStrip(user_prompt) IN
    SystemFormat(SystemTips(SystemPrompts(tips, api_prompt, up), tips, up))

(* -------------------------- get_task_prompt ---------------------------- *)
Unknown == <<"unknown">>

\* the fixed instruction strings of lines 251, 254 and 276
REPLY_LANGUAGE_TASK == <<"Now, use the exact language of the 'task' field for subsequent responses">>
MATPLOTLIB_RULE == <<"DO NOT use plt.show; save with plt.savefig() and show with runtime.display()">>
REPLY_LANGUAGE_MESSAGE == <<"Now, use the exact language of the 'message' field for subsequent responses">>

\* lines 234-236
TaskPrompt(instruction) ==
    OSet(OSet(OrderedDict, "task", instruction), "source", <<"User">>)

\* lines 237-242
TaskContext(h, loc, d) ==
    OSet(OSet(OSet(OSet(OSet(OrderedDict,
        "os_type", h.system),
        "os_locale", loc),
        "os_platform", h.platform),
        "python_version", h.python_version),
        "today", isoformat(d))

\* mutant of TaskEnv: the key is written only when the variable is set
TaskEnvIfSet(context, e, k) ==
    IF k \in DOMAIN e THEN OSet(context, k, e[k]) ELSE context

\* lines 245, 246: context[k] = os.environ.get(k, 'unknown')
TaskEnv(context, e, k) == OSet(context, k, environ_get(e, k, Unknown).value)

\* mutant of TaskConstraints: the matplotlib rule is always given
TaskConstraintsAlways(gui) ==
    OSet(OSet(OSet(OrderedDict,
        "reply_language", REPLY_LANGUAGE_TASK),
        "file_creation_path", <<"current_directory">>),
        "matplotlib", MATPLOTLIB_RULE)

\* lines 250-254
TaskConstraints(gui) ==
    LET base == OSet(OSet(OrderedDict,
            "reply_language", REPLY_LANGUAGE_TASK),
            "file_creation_path", <<"current_directory">>)
    IN IF gui
       THEN OSet(base, "matplotlib", MATPLOTLIB_RULE)
       ELSE base

\* lines 248, 256
TaskFinish(prompt, context, constraints) ==
    OSet(OSet(prompt, "context", context), "constraints", constraints)

\* w is the world the call runs in: [environ, today, locale, host]
get_task_prompt(instruction, gui, w) ==
    LET c0 == TaskContext(w.host, w.locale, w.today)
        c2 == IF gui THEN c0 ELSE TaskEnv(TaskEnv(c0, w.environ, "TERM"), w.environ, "LC_TERMINAL")
    IN TaskFinish(TaskPrompt(instruction), c2, TaskConstraints(gui))

(* ------------------------- get_results_prompt -------------------------- *)
\* mutant of get_results_prompt: the results are put in reverse
get_results_prompt_reversed(results) ==
    OSet(OSet(OSet(OrderedDict,
        "message", <<"These are the execution results of the code block/s">>),
        "source", <<"Runtime Environment">>),
        "results", [i \in 1..Len(results) |-> results[Len(results) + 1 - i]])

\* lines 260-264
get_results_prompt(results) ==
    OSet(OSet(OSet(OrderedDict,
        "message", <<"These are the execution results of the code block/s">>),
        "source", <<"Runtime Environment">>),
        "results", results)

(* --------------------------- get_chat_prompt --------------------------- *)
\* lines 267-269
ChatHead(msg) == OSet(OSet(OrderedDict, "message", msg), "source", <<"User">>)

\* mutant of ChatTail: the task is run through str.format
ChatTailFormatted(prompt, task) ==
    OSet(OSet(prompt,
        "context", OSet(OrderedDict, "initial_task", Format(task, [task |-> <<>>, tips |-> <<>>]))),
        "constraints", OSet(OrderedDict, "reply_language",
            REPLY_LANGUAGE_MESSAGE))

\* lines 271-277
ChatTail(prompt, task) ==
    OSet(OSet(prompt,
        "context", OSet(OrderedDict, "initial_task", task)),
        "constraints", OSet(OrderedDict, "reply_language",
            REPLY_LANGUAGE_MESSAGE))

get_chat_prompt(msg, task) == ChatTail(ChatHead(msg), task)

(* ------------------------ get_mcp_result_prompt ------------------------ *)
\* lines 281-285
get_mcp_result_prompt(result) ==
    OSet(OSet(OSet(OrderedDict,
        "message", <<"The following is the result of the MCP tool call">>),
        "source", <<"MCP Tool">>),
        "result", result)

(* ------------------------------- inputs -------------------------------- *)
Chars == {SP, "a"}

StrsUpTo(n) == UNION {[1..k -> Chars] : k \in 0..n}

\* arguments that look like the templates' placeholders
PlaceholderLike ==
    {<<"{", "role_prompt", "}">>, <<"{", "tips", "}">>, <<"{", "apis", "}">>,
     <<"{", "tips_prompt", "}">>, <<"}", "{">>}

Texts == StrsUpTo(MaxLen) \cup PlaceholderLike \cup {<<NL, "{", "tips", "}", NL>>}

UserPrompts == {NoneVal} \cup Texts

ApiInfos == {<<>>, <<"k">>, <<"{", "apis", "}">>, <<"{", "role_prompt", "}">>}

\* a tips collection: tips.role.detail, len(tips), str(tips)
TipsSet ==
    {[role |-> [detail |-> d], len |-> n, str |-> s] :
        d \in {<<"d">>, <<"{", "tips_prompt", "}">>},
        n \in 0..MaxTips,
        s \in {<<"t">>, <<"{", "apis", "}">>}}

Instructions == {<<>>, <<"a">>, <<"{", "task", "}">>}

ResultSeqs == UNION {[1..k -> {"r1", "r2"}] : k \in 0..MaxResults}

ChatMsgs == {<<>>, <<"a">>, <<"{", "message", "}">>, <<"{", "{">>}

ChatTasks == {<<>>, <<SP, "a">>, <<"{", "task", "}">>, <<"}">>}

McpResults == {<<>>, <<"ok">>}

\* the inputs of the runs with several threads
ConcUserPrompts == {NoneVal, <<"a">>}
ConcApiInfos == {<<"k">>}
ConcTipsSet == {[role |-> [detail |-> <<"d">>], len |-> 1, str |-> <<"t">>]}
ConcInstructions == {<<"a">>}
ConcResultSeqs == {<<"r1">>}
ConcChatMsgs == {<<"a">>, <<"b">>}
ConcChatTasks == {<<"a">>}
ConcMcpResults == {<<"ok">>}
ConcEnvirons == {e \in Environs : DOMAIN e \subseteq {"TERM"} /\ \A k \in DOMAIN e : e[k] = <<"xterm">>}

(* ------------------------------- state --------------------------------- *)
VARIABLES
    environ,    \* os.environ
    today,      \* the date date.today() returns
    curlocale,  \* what locale.getlocale() returns
    host,       \* what the platform module reports
    pc,         \* per thread: the block of lines it is about to run
    fn,         \* per thread: the builder it runs or ran last
    args,       \* per thread: the arguments of that invocation (never assigned)
    locals,     \* the variables the invocations assign, one frame each
    ret,        \* per thread: what its last invocation returned
    seen        \* per thread: the world its get_task_prompt invocation was made in

vars == <<environ, today, curlocale, host, pc, fn, args, locals, ret, seen>>

world == <<environ, today, curlocale, host>>

World == [environ |-> environ, today |-> today, locale |-> curlocale, host |-> host]

NoWorld == [environ |-> <<>>, today |-> <<>>, locale |-> <<>>, host |-> <<>>]

Threads == DOMAIN pc

EmptyPrompts == [role_prompt |-> <<>>, aipy_prompt |-> <<>>, tips_prompt |-> <<>>, api_prompt |-> <<>>]

\* the local variables of an invocation that has just been entered
NewFrame(up) ==
    [user_prompt |-> up, prompts |-> EmptyPrompts, prompt |-> <<>>, context |-> <<>>]

\* mutant of FrameOf: the locals are module-level, one frame for every invocation
FrameShared(t) == 1

\* each invocation has local variables of its own
FrameOf(t) == t

F(t) == locals[FrameOf(t)]

InCall(t) == pc[t] \notin {"idle", "done"}

TypeInit(n) ==
    /\ pc = [t \in 1..n |-> "idle"]
    /\ fn = [t \in 1..n |-> "none"]
    /\ args = [t \in 1..n |-> <<>>]
    /\ locals = [t \in 1..n |-> NewFrame(<<>>)]
    /\ ret = [t \in 1..n |-> <<>>]
    /\ seen = [t \in 1..n |-> NoWorld]

Init ==
    /\ environ \in Environs
    /\ today \in Dates
    /\ curlocale \in Locales
    /\ host \in Hosts
    /\ TypeInit(1)

InitConc ==
    /\ environ \in ConcEnvirons
    /\ today \in Dates
    /\ curlocale = <<"en_US", "UTF-8">>
    /\ host \in Hosts
    /\ TypeInit(NumThreads)

(* ------------------------------ actions -------------------------------- *)
\* thread t enters builder f with arguments a
Enter(t, f, a, up, first) ==
    /\ pc[t] = "idle"
    /\ pc' = [pc EXCEPT ![t] = first]
    /\ fn' = [fn EXCEPT ![t] = f]
    /\ args' = [args EXCEPT ![t] = a]
    /\ locals' = [locals EXCEPT ![FrameOf(t)] = NewFrame(up)]
    /\ ret' = [ret EXCEPT ![t] = <<>>]
    /\ seen' = [seen EXCEPT ![t] = IF f = "task" THEN World ELSE NoWorld]
    /\ UNCHANGED world

CallSystem(t, tips, api_prompt, user_prompt) ==
    Enter(t, "system", [tips |-> tips, api_prompt |-> api_prompt, user_prompt |-> user_prompt],
          user_prompt, "s_strip")

CallTask(t, instruction, gui) ==
    Enter(t, "task", [instruction |-> instruction, gui |-> gui], <<>>, "t_head")

CallResults(t, results) == Enter(t, "results", [results |-> results], <<>>, "r_build")

CallChat(t, msg, task) == Enter(t, "chat", [msg |-> msg, task |-> task], <<>>, "c_head")

CallMcp(t, result) == Enter(t, "mcp", [result |-> result], <<>>, "m_build")

\* a step of thread t that only changes its frame
Step(t, from, to, frame) ==
    /\ pc[t] = from
    /\ pc' = [pc EXCEPT ![t] = to]
    /\ locals' = [locals EXCEPT ![FrameOf(t)] = frame]
    /\ UNCHANGED <<fn, args, ret, seen>>

\* the return of thread t's invocation
Return(t, from, value) ==
    /\ pc[t] = from
    /\ pc' = [pc EXCEPT ![t] = "done"]
    /\ ret' = [ret EXCEPT ![t] = value]
    /\ UNCHANGED <<fn, args, locals, seen>>

SystemStripStep(t) ==
    /\ Step(t, "s_strip", "s_prompts", [F(t) EXCEPT !.user_prompt = SystemStrip(F(t).user_prompt)])
    /\ UNCHANGED world

SystemPromptsStep(t) ==
    /\ Step(t, "s_prompts", "s_tips",
            [F(t) EXCEPT !.prompts =
                SystemPrompts(args[t].tips, args[t].api_prompt, F(t).user_prompt)])
    /\ UNCHANGED world

SystemTipsStep(t) ==
    /\ Step(t, "s_tips", "s_format",
            [F(t) EXCEPT !.prompts = SystemTips(F(t).prompts, args[t].tips, F(t).user_prompt)])
    /\ UNCHANGED world

SystemReturn(t) ==
    /\ Return(t, "s_format", SystemFormat(F(t).prompts))
    /\ UNCHANGED world

TaskHeadStep(t) ==
    /\ Step(t, "t_head", IF args[t].gui THEN "t_tail" ELSE "t_term",
            [F(t) EXCEPT !.prompt = TaskPrompt(args[t].instruction),
                         !.context = TaskContext(host, curlocale, today)])
    /\ UNCHANGED world

TaskTermStep(t) ==
    /\ Step(t, "t_term", "t_lcterm", [F(t) EXCEPT !.context = TaskEnv(F(t).context, environ, "TERM")])
    /\ environ' = environ_get(environ, "TERM", Unknown).environ
    /\ UNCHANGED <<today, curlocale, host>>

TaskLcTerminalStep(t) ==
    /\ Step(t, "t_lcterm", "t_tail",
            [F(t) EXCEPT !.context = TaskEnv(F(t).context, environ, "LC_TERMINAL")])
    /\ environ' = environ_get(environ, "LC_TERMINAL", Unknown).environ
    /\ UNCHANGED <<today, curlocale, host>>

TaskReturn(t) ==
    /\ Return(t, "t_tail", TaskFinish(F(t).prompt, F(t).context, TaskConstraints(args[t].gui)))
    /\ UNCHANGED world

ResultsReturn(t) ==
    /\ Return(t, "r_build", get_results_prompt(args[t].results))
    /\ UNCHANGED world

ChatHeadStep(t) ==
    /\ Step(t, "c_head", "c_tail", [F(t) EXCEPT !.prompt = ChatHead(args[t].msg)])
    /\ UNCHANGED world

ChatReturn(t) ==
    /\ Return(t, "c_tail", ChatTail(F(t).prompt, args[t].task))
    /\ UNCHANGED world

McpReturn(t) ==
    /\ Return(t, "m_build", get_mcp_result_prompt(args[t].result))
    /\ UNCHANGED world

\* The caller is finished with what the invocation returned: the record and
\* the invocation's frame go out of use, and the thread may call again.
Release(t) ==
    /\ pc[t] = "done"
    /\ pc' = [pc EXCEPT ![t] = "idle"]
    /\ fn' = [fn EXCEPT ![t] = "none"]
    /\ args' = [args EXCEPT ![t] = <<>>]
    /\ ret' = [ret EXCEPT ![t] = <<>>]
    /\ seen' = [seen EXCEPT ![t] = NoWorld]
    /\ locals' = [locals EXCEPT ![FrameOf(t)] = NewFrame(<<>>)]
    /\ UNCHANGED world

\* The world is changed by code outside this module, between the invocations.
Quiet == \A t \in Threads : ~InCall(t)

SetEnviron(e) ==
    /\ Quiet
    /\ e # environ
    /\ environ' = e
    /\ UNCHANGED <<today, curlocale, host, pc, fn, args, locals, ret, seen>>

SetDate(d) ==
    /\ Quiet
    /\ d # today
    /\ today' = d
    /\ UNCHANGED <<environ, curlocale, host, pc, fn, args, locals, ret, seen>>

Next ==
    \/ \E t \in Threads : pc[t] = "idle" /\ \E tips \in TipsSet, api \in ApiInfos, up \in UserPrompts :
            CallSystem(t, tips, api, up)
    \/ \E t \in Threads : pc[t] = "idle" /\ \E i \in Instructions, gui \in BOOLEAN :
            CallTask(t, i, gui)
    \/ \E t \in Threads : pc[t] = "idle" /\ \E r \in ResultSeqs :
            CallResults(t, r)
    \/ \E t \in Threads : pc[t] = "idle" /\ \E m \in ChatMsgs, k \in ChatTasks :
            CallChat(t, m, k)
    \/ \E t \in Threads : pc[t] = "idle" /\ \E r \in McpResults :
            CallMcp(t, r)
    \/ \E t \in Threads : SystemStripStep(t)
    \/ \E t \in Threads : SystemPromptsStep(t)
    \/ \E t \in Threads : SystemTipsStep(t)
    \/ \E t \in Threads : SystemReturn(t)
    \/ \E t \in Threads : TaskHeadStep(t)
    \/ \E t \in Threads : TaskTermStep(t)
    \/ \E t \in Threads : TaskLcTerminalStep(t)
    \/ \E t \in Threads : TaskReturn(t)
    \/ \E t \in Threads : ResultsReturn(t)
    \/ \E t \in Threads : ChatHeadStep(t)
    \/ \E t \in Threads : ChatReturn(t)
    \/ \E t \in Threads : McpReturn(t)
    \/ \E t \in Threads : Release(t)

\* One thread calls the builders one after the other, in a world that is any
\* of the worlds from the start.
Spec == Init /\ [][Next]_vars

\* Several threads call the builders; between the invocations the world changes.
NextConc ==
    \/ \E t \in Threads : pc[t] = "idle" /\ \E tips \in ConcTipsSet, api \in ConcApiInfos, up \in ConcUserPrompts :
            CallSystem(t, tips, api, up)
    \/ \E t \in Threads : pc[t] = "idle" /\ \E i \in ConcInstructions, gui \in BOOLEAN :
            CallTask(t, i, gui)
    \/ \E t \in Threads : pc[t] = "idle" /\ \E r \in ConcResultSeqs :
            CallResults(t, r)
    \/ \E t \in Threads : pc[t] = "idle" /\ \E m \in ConcChatMsgs, k \in ConcChatTasks :
            CallChat(t, m, k)
    \/ \E t \in Threads : pc[t] = "idle" /\ \E r \in ConcMcpResults :
            CallMcp(t, r)
    \/ \E t \in Threads : SystemStripStep(t)
    \/ \E t \in Threads : SystemPromptsStep(t)
    \/ \E t \in Threads : SystemTipsStep(t)
    \/ \E t \in Threads : SystemReturn(t)
    \/ \E t \in Threads : TaskHeadStep(t)
    \/ \E t \in Threads : TaskTermStep(t)
    \/ \E t \in Threads : TaskLcTerminalStep(t)
    \/ \E t \in Threads : TaskReturn(t)
    \/ \E t \in Threads : ResultsReturn(t)
    \/ \E t \in Threads : ChatHeadStep(t)
    \/ \E t \in Threads : ChatReturn(t)
    \/ \E t \in Threads : McpReturn(t)
    \/ \E t \in Threads : Release(t)
    \/ \E e \in ConcEnvirons : SetEnviron(e)
    \/ \E d \in Dates : SetDate(d)

SpecConc == InitConc /\ [][NextConc]_vars

(* ------------------------------ claims --------------------------------- *)
Done(t, f) == pc[t] = "done" /\ fn[t] = f

\* a template with the value put in the place of its single placeholder
Substituted(tpl, value) ==
    LET open == CHOOSE i \in 1..Len(tpl) : tpl[i] = "{"
        close == CHOOSE i \in 1..Len(tpl) : tpl[i] = "}"
    IN SubSeq(tpl, 1, open - 1) \o value \o SubSeq(tpl, close + 1, Len(tpl))

\* the four sections in the order role, aipy rules, tips, api
Envelope(role, rules, tipsSection, apiSection) ==
    <<NL>> \o role \o <<NL>> \o rules \o <<NL>> \o tipsSection \o <<NL>> \o apiSection \o <<NL>>

\* C1 as stated: for every non-empty user prompt, white space only included,
\* the role section is the trimmed user prompt and the tips section is empty.
C1_AsStated ==
    \A t \in Threads :
        Done(t, "system") /\ Truthy(args[t].user_prompt) =>
            ret[t] = Envelope(Strip(args[t].user_prompt), AIPY_PROMPT, <<>>,
                              Substituted(API_PROMPT, args[t].api_prompt))

\* C1 amended: for every user prompt that is non-empty after trimming, and
\* every tips collection, the role section is the trimmed user prompt and the
\* tips section is empty.
C1_TrimmedUserPromptWins ==
    \A t \in Threads :
        Done(t, "system") /\ Truthy(args[t].user_prompt) /\ Strip(args[t].user_prompt) # <<>> =>
            ret[t] = Envelope(Strip(args[t].user_prompt), AIPY_PROMPT, <<>>,
                              Substituted(API_PROMPT, args[t].api_prompt))

C1_Witness ==
    \E t \in Threads :
        /\ Done(t, "system")
        /\ args[t].user_prompt = <<SP, "a">>
        /\ args[t].tips.len > 0
        /\ ret[t] = Envelope(<<"a">>, AIPY_PROMPT, <<>>, Substituted(API_PROMPT, args[t].api_prompt))

\* C2: with the user prompt empty or absent the role section is
\* tips.role.detail, and the tips section is empty when len(tips) = 0 and
\* otherwise TIPS_PROMPT with str(tips) in the place of its placeholder.
C2_NoUserPrompt ==
    \A t \in Threads :
        Done(t, "system") /\ args[t].user_prompt \in {NoneVal, <<>>} =>
            ret[t] = Envelope(args[t].tips.role.detail, AIPY_PROMPT,
                              IF args[t].tips.len = 0 THEN <<>>
                              ELSE Substituted(TIPS_PROMPT, args[t].tips.str),
                              Substituted(API_PROMPT, args[t].api_prompt))

C2_Witness ==
    \E t \in Threads :
        /\ Done(t, "system")
        /\ args[t].user_prompt = NoneVal
        /\ args[t].tips.len = MaxTips
        /\ args[t].tips.str = <<"t">>
        /\ ret[t] = Envelope(args[t].tips.role.detail, AIPY_PROMPT,
                             <<NL, "# tips / best practices", NL, "t", NL>>,
                             Substituted(API_PROMPT, args[t].api_prompt))

C4_TaskKeys ==
    \A t \in Threads :
        Done(t, "task") /\ ~args[t].gui =>
            /\ Keys(ret[t]) = <<"task", "source", "context", "constraints">>
            /\ Keys(Get(ret[t], "context")) =
                 <<"os_type", "os_locale", "os_platform", "python_version", "today",
                   "TERM", "LC_TERMINAL">>

C4_Witness ==
    \E t \in Threads :
        /\ Done(t, "task") /\ ~args[t].gui
        /\ DOMAIN environ = {"COLORTERM"}
        /\ Len(Get(ret[t], "context")) = 7

\* C5: the context has TERM and LC_TERMINAL exactly when gui is false, the
\* constraints have matplotlib exactly when gui is true, and reply_language and
\* file_creation_path = "current_directory" are there in both modes.
C5_GuiSwitch ==
    \A t \in Threads :
        Done(t, "task") =>
            LET context == Get(ret[t], "context")
                constraints == Get(ret[t], "constraints")
            IN /\ HasKey(context, "TERM") <=> ~args[t].gui
               /\ HasKey(context, "LC_TERMINAL") <=> ~args[t].gui
               /\ HasKey(constraints, "matplotlib") <=> args[t].gui
               /\ HasKey(constraints, "reply_language")
               /\ HasKey(constraints, "file_creation_path")
               /\ Get(constraints, "file_creation_path") = <<"current_directory">>

C5_Witness ==
    \E t \in Threads :
        /\ Done(t, "task") /\ args[t].gui
        /\ Keys(Get(ret[t], "constraints")) = <<"reply_language", "file_creation_path", "matplotlib">>
        /\ Len(Get(ret[t], "context")) = 5

\* C6: with gui false, TERM and LC_TERMINAL each are "unknown" in the context
\* when the variable is not in the environment and the environment's value when
\* it is; the invocation returns a record and leaves the environment as it was.
C6_EnvDefaults ==
    \A t \in Threads :
        fn[t] = "task" =>
            /\ environ = seen[t].environ
            /\ Done(t, "task") /\ ~args[t].gui =>
                 /\ HasKey(ret[t], "context")
                 /\ \A k \in {"TERM", "LC_TERMINAL"} :
                      /\ HasKey(Get(ret[t], "context"), k)
                      /\ Get(Get(ret[t], "context"), k) =
                            IF k \in DOMAIN seen[t].environ THEN seen[t].environ[k] ELSE <<"unknown">>

C6_Witness ==
    \E t \in Threads :
        /\ Done(t, "task") /\ ~args[t].gui
        /\ DOMAIN environ = {"LC_TERMINAL"}
        /\ environ["LC_TERMINAL"] = <<>>
        /\ Get(Get(ret[t], "context"), "TERM") = <<"unknown">>
        /\ Get(Get(ret[t], "context"), "LC_TERMINAL") = <<>>

\* C7: get_results_prompt returns exactly the keys message, source, results in
\* that order, source "Runtime Environment", and results equal to the input,
\* same elements in the same order (no step of the builder assigns to its
\* argument, so the input is what it was at the call).
C7_ResultsKept ==
    \A t \in Threads :
        Done(t, "results") =>
            /\ Keys(ret[t]) = <<"message", "source", "results">>
            /\ Get(ret[t], "source") = <<"Runtime Environment">>
            /\ Get(ret[t], "results") = args[t].results

C7_Witness ==
    \E t \in Threads :
        /\ Done(t, "results")
        /\ args[t].results = <<"r2", "r1">>
        /\ Get(ret[t], "results") = <<"r2", "r1">>

\* C8: get_chat_prompt(msg, task) returns the keys message, source, context,
\* constraints in that order, message = msg, a context holding only
\* initial_task = task and constraints holding only reply_language, for every
\* msg and task, the empty string and placeholder-like text included.
C8_ChatStructure ==
    \A t \in Threads :
        Done(t, "chat") =>
            /\ Keys(ret[t]) = <<"message", "source", "context", "constraints">>
            /\ Get(ret[t], "message") = args[t].msg
            /\ Keys(Get(ret[t], "context")) = <<"initial_task">>
            /\ Get(Get(ret[t], "context"), "initial_task") = args[t].task
            /\ Keys(Get(ret[t], "constraints")) = <<"reply_language">>

C8_Witness ==
    \E t \in Threads :
        /\ Done(t, "chat")
        /\ args[t].msg = <<>>
        /\ args[t].task = <<"{", "task", "}">>
        /\ Get(Get(ret[t], "context"), "initial_task") = <<"{", "task", "}">>

\* what builder f returns for arguments a when it runs alone in world w
Alone(f, a, w) ==
    CASE f = "system"  -> get_system_prompt(a.tips, a.api_prompt, a.user_prompt)
      [] f = "task"    -> get_task_prompt(a.instruction, a.gui, w)
      [] f = "results" -> get_results_prompt(a.results)
      [] f = "chat"    -> get_chat_prompt(a.msg, a.task)
      [] f = "mcp"     -> get_mcp_result_prompt(a.result)

\* C9: in every interleaving of the threads' invocations, no step of a builder
\* writes the shared state (environment, date, locale, platform), and every
\* invocation returns what it returns when it runs alone with the same
\* arguments in the same world.
C9_Reentrant ==
    [][\A t \in Threads :
          /\ InCall(t) /\ pc'[t] = "done" => ret'[t] = Alone(fn[t], args[t], World)
          /\ pc'[t] # pc[t] => world' = world]_vars

C9_Witness ==
    \E t, u \in Threads :
        /\ Done(t, "task") /\ ~args[t].gui
        /\ ret[t] = Alone("task", args[t], World)
        /\ fn[u] = "chat" /\ pc[u] = "c_tail"

\* C10 as stated: two invocations of the same builder with equal arguments
\* return equal outputs, whatever the environment and the date at each.
C10_AsStated ==
    \A t, u \in Threads :
        pc[t] = "done" /\ pc[u] = "done" /\ fn[t] = fn[u] /\ args[t] = args[u] =>
            ret[t] = ret[u]

\* C10 amended: two invocations of the same builder with equal arguments return
\* equal outputs, for get_task_prompt provided that the platform, locale, date
\* and environment are the same at both invocations.
C10_PureGivenWorld ==
    \A t, u \in Threads :
        (/\ pc[t] = "done" /\ pc[u] = "done" /\ fn[t] = fn[u] /\ args[t] = args[u]
         /\ (fn[t] = "task" => seen[t] = seen[u]))
        => ret[t] = ret[u]

C10_Witness ==
    \E t, u \in Threads :
        /\ t # u
        /\ Done(t, "task") /\ Done(u, "task")
        /\ args[t] = args[u] /\ ~args[t].gui
        /\ seen[t] = seen[u]
        /\ World # seen[t]
        /\ ret[t] = ret[u]

====
